---- MODULE Spec2Model ----
(***************************************************************************)
(* The DCP405 voltage follower script (DCP405_voltage_follower.py), the    *)
(* BB3 socket screenshot tool (take_screenshot_bb3.py) and the DMM6500     *)
(* browser screenshot tool (take_screenshot_dmm6500_githubversion.py) as   *)
(* state machines.                                                         *)
(*                                                                         *)
(* Voltages are integers in millivolt, currents in milliampere, times in   *)
(* milliseconds of the MicroPython tick counter.  Every device call        *)
(* (scpi, getU, getI, setU) may raise; an action takes the index of the    *)
(* call that raises as an input (0: none raises).  A step's `sent` is the  *)
(* list of device calls it issued, the raising one included.               *)
(***************************************************************************)
EXTENDS Integers, Sequences, FiniteSets, TLC

VARIABLES
    pc,                 \* position of the follower script
    running,            \* DCP405_voltage_follower.py:40
    voltage_offset,     \* :41 (mV)
    current_limit,      \* :42 (mA)
    target_voltage_set, \* :43 (mV)
    loop_count,         \* :199
    t,                  \* :200, :249
    t_next,             \* :205
    timeout_ms,         \* :206
    action,             \* :209
    ch1_v, ch2_v, ch2_i,\* :224
    now,                \* the value ticks_ms() returns
    sent,               \* device calls issued by the latest step
    fault,              \* index in `sent` of the call that raised in the latest step, 0 if none
    lastNsel,           \* channel of the latest INST:NSEL issued, 0 before the first
    lastOutp,           \* argument of the latest OUTP issued, -1 before the first
    iter,               \* iterations of the main loop started
    presses,            \* user actions returned by the action poll so far
    t0,                 \* the value of t when the loop was entered
    entered,            \* what the user entered in the latest input prompt, None if cancelled
    printed             \* whether the latest completed iteration printed the status line (lines 243-245)

fvars == <<pc, running, voltage_offset, current_limit, target_voltage_set,
           loop_count, t, t_next, timeout_ms, action, ch1_v, ch2_v, ch2_i,
           now, sent, fault, lastNsel, lastOutp, iter, presses, t0, entered, printed>>

VARIABLES
    spc,                \* position of take_screenshot
    sock,               \* take_screenshot_bb3.py:26, :47: "none", "open" or "closed"
    stream,             \* bytes of the response the server has still to deliver
    data,               \* :37, :42
    file,               \* content of the output file, None while it does not exist
    writable,           \* whether the output file can be opened and written (line 63)
    result              \* what take_screenshot returned: "none" until it returns

svars == <<spc, sock, stream, data, file, writable, result>>

VARIABLES
    dpc,                \* position of the DMM6500 tool
    browser,            \* take_screenshot_dmm6500_githubversion.py:87, :225
    fullpage,           \* :87, :227
    driver,             \* :97, :100, :182: "none", "open" or "quit"
    image_data,         \* :135, :143, :157: None until assigned
    dfile,              \* content of the output file, None while it does not exist
    dwritable,          \* whether the output file can be opened and written (line 160)
    success,            \* :219: "none" until take_screenshot returns
    status              \* the exit status of the process, -1 while it runs

dvars == <<dpc, browser, fullpage, driver, image_data, dfile, dwritable, success, status>>

vars == <<fvars, svars, dvars>>

-----------------------------------------------------------------------------
(* Bounds of the model *)

\* iterations of the main loop a run may start
MaxIter == 10
\* user actions (button presses) a run may receive
MaxPresses == 2
\* bytes of a response of the screenshot server
MaxStream == 5

-----------------------------------------------------------------------------
(* Program constants *)

\* 40.0 V, the DCP405 full scale
FullScale == 40000
\* ticks_add(t, 500)
Period == 500
\* max(10, ...)
MinTimeout == 10
\* if loop_count >= 10
StatusEvery == 10
\* current_limit = 0.1
InitialLimit == 100
\* DISP:INPUT? "Current Limit",NUMBER,AMPER,0.05,5
MinLimit == 50
MaxLimit == 5000
\* the period of the MicroPython tick counter, 2^30
TicksPeriod == 1073741824
\* sock.recv(4096)
RecvSize == 4096
\* the bytes b"#", b"0" and b"\n"
Hash == 35
Zero == 48
NL == 10

\* Python's None, and a value v, as returned by a query
None == <<>>
Some(v) == <<v>>

-----------------------------------------------------------------------------
(* Inputs the environment supplies *)

\* getU(1) readings (mV)
Readings == {1000, FullScale}
\* (getU(2), getI(2)) readings
Ch2Readings == {<<1500, 100>>}
\* SYST:CHAN:MODel? answers; "" is an empty answer
Models ==
    { <<"D", "C", "P", "4", "0", "5">>,
      <<"D", "C", "P", "4", "0", "5", "B">>,
      <<"D", "C", "M", "2", "2", "0">>,
      <<>> }
\* what the user enters in the offset prompt (mV); None is a cancel
OffsetEntries == {None, Some(500), Some(0 - 2000)}
\* what the user enters in the current limit prompt (mA)
LimitEntries == {None, Some(1000), Some(6000)}
\* DISP:DIALog:ACTIon? answers; "none" is the timeout
UserActions == {"start_control", "stop_control", "config_voltage_offset",
                "config_current_limit", "close_dialog", "other_action"}
\* time after which a press ends the action poll (ms): at once, before any timeout
PressDelays == {0}
\* time an input prompt waits for the user (ms)
Durations == {0, 700}
\* ticks_ms() when the script starts: close to the wrap of the counter
StartTicks == {TicksPeriod - 1200}

-----------------------------------------------------------------------------
(* utime *)

TicksAdd(a, d) == (a + d) % TicksPeriod

TicksDiff(a, b) == ((a - b + TicksPeriod \div 2) % TicksPeriod) - TicksPeriod \div 2

Max(a, b) == IF a >= b THEN a ELSE b

-----------------------------------------------------------------------------
(* Device calls *)

Nsel(ch) == <<"INST:NSEL", ch>>
Outp(on) == <<"OUTP", on>>
Curr(ma) == <<"CURR", ma>>
SetU2(mv) == <<"setU2", mv>>
GetU(ch, mv) == <<"getU", ch, mv>>
GetI(ch, ma) == <<"getI", ch, ma>>
Data(field, v) == <<"DISP:DIAL:DATA", field, v>>
Status(s) == <<"DISP:DIAL:DATA status", s>>
Input(what, lo, hi, dflt) == <<"DISP:INPUT?", what, lo, hi, dflt>>

\* The calls of `cmds` a step issues when its f-th call raises (f = 0: none raises)
Issued(cmds, f) == IF f = 0 THEN cmds ELSE SubSeq(cmds, 1, f)

Has(s, c) == \E i \in 1..Len(s) : s[i] = c

HasName(s, name) == \E i \in 1..Len(s) : s[i][1] = name

\* The argument of the last call named `name` in s, prev if there is none
LastArg(s, name, prev) ==
    LET I == {i \in 1..Len(s) : s[i][1] = name}
    IN  IF I = {} THEN prev ELSE s[CHOOSE i \in I : \A j \in I : j <= i][2]

\* The effect of a step that issues `cmds` with its f-th call raising on the log
Log(cmds, f) ==
    /\ sent' = Issued(cmds, f)
    /\ fault' = f
    /\ lastNsel' = LastArg(Issued(cmds, f), "INST:NSEL", lastNsel)
    /\ lastOutp' = LastArg(Issued(cmds, f), "OUTP", lastOutp)

\* DISP:INPUT? with limits: the keypad returns an entry within [lo, hi], or None
InputPrompt(lo, hi, entry) ==
    IF entry = None THEN None
    ELSE IF lo <= entry[1] /\ entry[1] <= hi THEN entry ELSE None

-----------------------------------------------------------------------------
(* check_dcp405_modules and the start of the script *)

IsDCP405(m) ==
    \E i \in 1..(Len(m) - 5) : SubSeq(m, i, i + 5) = <<"D", "C", "P", "4", "0", "5">>

CheckCmds(m1, m2) ==
    <<Nsel(1), <<"SYST:CHAN:MODel?", 1, m1>>, Nsel(2), <<"SYST:CHAN:MODel?", 2, m2>>>>

\* The module check as it would be if it looked at channel 1 only
CheckOnlyCh1(m1, m2, f) == f = 0 /\ IsDCP405(m1)

check_dcp405_modules(m1, m2, f) == f = 0 /\ IsDCP405(m1) /\ IsDCP405(m2)

FollowerInit ==
    /\ pc = "check"
    /\ running = FALSE
    /\ voltage_offset = 0
    /\ current_limit = InitialLimit
    /\ target_voltage_set = 0
    /\ loop_count = 0
    /\ t = 0
    /\ t_next = 0
    /\ timeout_ms = 0
    /\ action = "none"
    /\ ch1_v = 0 /\ ch2_v = 0 /\ ch2_i = 0
    /\ now \in StartTicks
    /\ sent = <<>>
    /\ fault = 0
    /\ lastNsel = 0
    /\ lastOutp = -1
    /\ iter = 0
    /\ presses = 0
    /\ t0 = 0
    /\ entered = None
    /\ printed = FALSE

\* take_screenshot is not running
ShotIdle ==
    /\ spc = "idle"
    /\ sock = "none"
    /\ stream = <<>>
    /\ data = <<>>
    /\ file = None
    /\ writable = TRUE
    /\ result = "none"

\* the DMM6500 tool is not running
DmmIdle ==
    /\ dpc = "idle"
    /\ browser = "chrome"
    /\ fullpage = TRUE
    /\ driver = "none"
    /\ image_data = None
    /\ dfile = None
    /\ dwritable = TRUE
    /\ success = "none"
    /\ status = -1

Init == FollowerInit /\ ShotIdle /\ DmmIdle

Session == <<running, voltage_offset, current_limit, target_voltage_set>>
LoopVars == <<loop_count, t, t_next, timeout_ms, action, ch1_v, ch2_v, ch2_i>>
Counters == <<iter, presses, t0, entered, printed>>

\* lines 166-170
CheckModules ==
    /\ pc = "check"
    /\ \E m1 \in Models, m2 \in Models, f \in 0..4 :
          /\ Log(CheckCmds(m1, m2), f)
          /\ pc' = IF check_dcp405_modules(m1, m2, f) THEN "ovp" ELSE "exited"
    /\ UNCHANGED <<Session, LoopVars, Counters, now>>
    /\ UNCHANGED <<svars, dvars>>

OvpCmds == <<Nsel(2), <<"VOLT:PROT:STAT", 0>>>>

\* lines 172-179
DisableOVP ==
    /\ pc = "ovp"
    /\ \E f \in 0..Len(OvpCmds) : Log(OvpCmds, f)
    /\ pc' = "open"
    /\ UNCHANGED <<Session, LoopVars, Counters, now>>
    /\ UNCHANGED <<svars, dvars>>

OpenCmds == <<<<"DISP:DIAL:OPEN", 0>>>>

\* lines 181-187
OpenDialog ==
    /\ pc = "open"
    /\ \E f \in 0..Len(OpenCmds) : Log(OpenCmds, f)
    /\ pc' = "init"
    /\ UNCHANGED <<Session, LoopVars, Counters, now>>
    /\ UNCHANGED <<svars, dvars>>

InitialCmds == <<Status("STOPPED"), Data("voltage_offset", 0), Data("current_limit", current_limit)>>

\* lines 189-192: not inside a try
InitialPush ==
    /\ pc = "init"
    /\ \E f \in 0..Len(InitialCmds) :
          /\ Log(InitialCmds, f)
          /\ pc' = IF f = 0 THEN "initupd" ELSE "crashed"
    /\ UNCHANGED <<Session, LoopVars, Counters, now>>
    /\ UNCHANGED <<svars, dvars>>

-----------------------------------------------------------------------------
(* updateDisplay *)

UpdateCmds(v1, r2) ==
    <<Nsel(1), GetU(1, v1), GetI(1, 0), Nsel(2), GetU(2, r2[1]), GetI(2, r2[2]),
      Data("source_voltage", v1), Data("target_voltage", r2[1]),
      Data("target_current", r2[2]), Data("voltage_offset", voltage_offset),
      Data("current_limit", current_limit)>>

\* lines 100-103: the values returned, (0, 0, 0) when a call raised
updateDisplay(v1, r2, f) == IF f = 0 THEN <<v1, r2[1], r2[2]>> ELSE <<0, 0, 0>>

\* lines 193-200
InitialUpdate ==
    /\ pc = "initupd"
    /\ \E v1 \in Readings, r2 \in Ch2Readings :
          \E f \in 0..Len(UpdateCmds(v1, r2)) : Log(UpdateCmds(v1, r2), f)
    /\ loop_count' = 0
    /\ t' = now
    /\ t0' = now
    /\ pc' = "loop"
    /\ UNCHANGED <<Session, t_next, timeout_ms, action, ch1_v, ch2_v, ch2_i, now, iter, presses,
                   entered, printed>>
    /\ UNCHANGED <<svars, dvars>>

-----------------------------------------------------------------------------
(* The main loop, lines 202-253 *)

PollCmd(ms) == <<"DISP:DIALog:ACTIon?", ms>>

\* line 205
NextDeadline == TicksAdd(t, Period)

\* line 206
Timeout(deadline) == Max(MinTimeout, TicksDiff(deadline, now))

\* lines 203-209: the deadline, the timeout and the action poll.  The poll returns
\* "none" when the timeout has passed, or a user action after a delay below it.
LoopPoll ==
    /\ pc = "loop"
    /\ iter < MaxIter
    /\ iter' = iter + 1
    /\ t_next' = NextDeadline
    /\ timeout_ms' = Timeout(NextDeadline)
    /\ \/ /\ Log(<<PollCmd(Timeout(NextDeadline))>>, 1)
          /\ pc' = "cleanup"
          /\ UNCHANGED <<action, now, presses>>
       \/ /\ Log(<<PollCmd(Timeout(NextDeadline))>>, 0)
          /\ action' = "none"
          /\ now' = TicksAdd(now, Timeout(NextDeadline))
          /\ pc' = "dispatch"
          /\ UNCHANGED presses
       \/ /\ presses < MaxPresses
          /\ presses' = presses + 1
          /\ Log(<<PollCmd(Timeout(NextDeadline))>>, 0)
          /\ \E a \in UserActions, w \in PressDelays :
                /\ action' = a
                /\ now' = TicksAdd(now, w)
          /\ pc' = "dispatch"
    /\ UNCHANGED <<Session, loop_count, t, ch1_v, ch2_v, ch2_i, t0, entered, printed>>
    /\ UNCHANGED <<svars, dvars>>

\* startControl as it would be if it toggled the flag
StartRunningToggle == ~running

\* line 109
StartRunning == TRUE

\* startControl as it would be without the channel selection
StartCmdsNoSelect == <<Status("RUNNING"), Curr(current_limit), Outp(1)>>

\* lines 109-115
StartCmds == <<Status("RUNNING"), Nsel(2), Curr(current_limit), Outp(1)>>

\* lines 211-212, 105-116
StartControl ==
    /\ pc = "dispatch"
    /\ action = "start_control"
    /\ running' = StartRunning
    /\ \E f \in 0..Len(StartCmds) :
          /\ Log(StartCmds, f)
          /\ pc' = IF f = 0 THEN "update" ELSE "cleanup"
    /\ UNCHANGED <<voltage_offset, current_limit, target_voltage_set, LoopVars, Counters, now>>
    /\ UNCHANGED <<svars, dvars>>

\* stopControl as it would be if it left the flag alone
StopRunningKept == running

\* line 122
StopRunning == FALSE

\* stopControl as it would be without the output disable
StopCmdsNoOutp == <<Status("STOPPED"), Nsel(2)>>

StopCmds == <<Status("STOPPED"), Nsel(2), Outp(0)>>

\* lines 213-214, 118-128
StopControl ==
    /\ pc = "dispatch"
    /\ action = "stop_control"
    /\ running' = StopRunning
    /\ \E f \in 0..Len(StopCmds) :
          /\ Log(StopCmds, f)
          /\ pc' = IF f = 0 THEN "update" ELSE "cleanup"
    /\ UNCHANGED <<voltage_offset, current_limit, target_voltage_set, LoopVars, Counters, now>>
    /\ UNCHANGED <<svars, dvars>>

\* line 142
MinOffset(v) == 0 - v

\* max_offset as it would be with the sign of the reading wrong
MaxOffsetPlus(v) == FullScale + v

\* line 143
MaxOffset(v) == FullScale - v

OffsetCmds(v) == <<GetU(1, v), Input("Voltage Offset", MinOffset(v), MaxOffset(v), voltage_offset)>>

\* lines 145-149: the offset after the prompt returned `value`
OffsetAfter(value) == IF value # None THEN value[1] ELSE voltage_offset

\* lines 215-216, 130-153: every exception is caught inside the handler
ConfigVoltageOffset ==
    /\ pc = "dispatch"
    /\ action = "config_voltage_offset"
    /\ \E v \in Readings, e \in OffsetEntries, d \in Durations :
          \E f \in 0..Len(OffsetCmds(v)) :
             /\ Log(OffsetCmds(v), f)
             /\ entered' = IF f = 0 THEN e ELSE None
             /\ voltage_offset' =
                   IF f = 0 THEN OffsetAfter(InputPrompt(MinOffset(v), MaxOffset(v), e))
                   ELSE voltage_offset
             /\ now' = TicksAdd(now, d)
    /\ pc' = "update"
    /\ UNCHANGED <<running, current_limit, target_voltage_set, LoopVars, iter, presses, t0, printed>>
    /\ UNCHANGED <<svars, dvars>>

\* configCurrentLimit as it would be if it sent the limit whatever the prompt returned
LimitCmdsAlways(value) ==
    <<Nsel(2), Curr(IF value # None THEN value[1] ELSE current_limit)>>

\* lines 160-163: the calls after the prompt returned `value`
LimitCmds(value) == IF value # None THEN <<Nsel(2), Curr(value[1])>> ELSE <<>>

\* lines 160-161: the limit after the prompt returned `value`
LimitAfter(value) == IF value # None THEN value[1] ELSE current_limit

ConfigLimitCalls(value) ==
    <<Input("Current Limit", MinLimit, MaxLimit, current_limit)>> \o LimitCmds(value)

\* lines 217-218, 155-164: no try inside the handler
ConfigCurrentLimit ==
    /\ pc = "dispatch"
    /\ action = "config_current_limit"
    /\ \E e \in LimitEntries, d \in Durations :
          LET value == InputPrompt(MinLimit, MaxLimit, e)
          IN  \E f \in 0..Len(ConfigLimitCalls(value)) :
                 /\ Log(ConfigLimitCalls(value), f)
                 /\ entered' = IF f = 1 THEN None ELSE e
                 /\ current_limit' = IF f = 1 THEN current_limit ELSE LimitAfter(value)
                 /\ now' = TicksAdd(now, d)
                 /\ pc' = IF f = 0 THEN "update" ELSE "cleanup"
    /\ UNCHANGED <<running, voltage_offset, target_voltage_set, LoopVars, iter, presses, t0, printed>>
    /\ UNCHANGED <<svars, dvars>>

\* lines 219-221
CloseDialog ==
    /\ pc = "dispatch"
    /\ action = "close_dialog"
    /\ Log(<<>>, 0)
    /\ pc' = "cleanup"
    /\ UNCHANGED <<Session, LoopVars, Counters, now>>
    /\ UNCHANGED <<svars, dvars>>

\* lines 211-219: no branch matches the timeout or an unknown action
NoAction ==
    /\ pc = "dispatch"
    /\ action \in {"none", "other_action"}
    /\ Log(<<>>, 0)
    /\ pc' = "update"
    /\ UNCHANGED <<Session, LoopVars, Counters, now>>
    /\ UNCHANGED <<svars, dvars>>

\* line 224
LoopUpdateDisplay ==
    /\ pc = "update"
    /\ \E v1 \in Readings, r2 \in Ch2Readings :
          \E f \in 0..Len(UpdateCmds(v1, r2)) :
             /\ Log(UpdateCmds(v1, r2), f)
             /\ ch1_v' = updateDisplay(v1, r2, f)[1]
             /\ ch2_v' = updateDisplay(v1, r2, f)[2]
             /\ ch2_i' = updateDisplay(v1, r2, f)[3]
    /\ pc' = "follow"
    /\ UNCHANGED <<Session, loop_count, t, t_next, timeout_ms, action, Counters, now>>
    /\ UNCHANGED <<svars, dvars>>

\* Clamp as it would be with the upper limit forgotten
ClampNoUpper(x) == IF x < 0 THEN 0 ELSE x

\* lines 231-234
Clamp(x) == IF x < 0 THEN 0 ELSE IF x > FullScale THEN FullScale ELSE x

\* line 228, 231-234
Target == Clamp(ch1_v + voltage_offset)

\* lines 237-238
\* The follow step as it would be if it commanded the output in every iteration
FollowCmdsAlways == <<Nsel(2), SetU2(Target)>>

\* lines 226-238
FollowCmds == IF running THEN <<Nsel(2), SetU2(Target)>> ELSE <<>>

\* lines 241-246
CountAfter == IF loop_count + 1 >= StatusEvery THEN 0 ELSE loop_count + 1

\* The next loop time as it would be if taken from the clock
NextTNow == now

\* line 249
NextT == t_next

\* lines 226-249
Follow ==
    /\ pc = "follow"
    /\ target_voltage_set' = IF running THEN Target ELSE target_voltage_set
    /\ \E f \in 0..Len(FollowCmds) :
          /\ Log(FollowCmds, f)
          /\ IF f = 0
             THEN /\ loop_count' = CountAfter
                  /\ printed' = (loop_count + 1 >= StatusEvery)
                  /\ t' = NextT
                  /\ pc' = "loop"
             ELSE /\ UNCHANGED <<loop_count, printed, t>>
                  /\ pc' = "cleanup"
    /\ UNCHANGED <<running, voltage_offset, current_limit, t_next, timeout_ms, action,
                   ch1_v, ch2_v, ch2_i, now, iter, presses, t0, entered>>
    /\ UNCHANGED <<svars, dvars>>

\* The cleanup as it would be without the output disable
CleanupNoDisable == <<Nsel(2), <<"DISP:DIALog:CLOSe", 0>>>>

CleanupCmds == <<Nsel(2), Outp(0), <<"DISP:DIALog:CLOSe", 0>>>>

\* lines 255-265
Cleanup ==
    /\ pc = "cleanup"
    /\ \E f \in 0..Len(CleanupCmds) : Log(CleanupCmds, f)
    /\ pc' = "done"
    /\ UNCHANGED <<Session, LoopVars, Counters, now>>
    /\ UNCHANGED <<svars, dvars>>

Next ==
    \/ CheckModules
    \/ DisableOVP
    \/ OpenDialog
    \/ InitialPush
    \/ InitialUpdate
    \/ LoopPoll
    \/ StartControl
    \/ StopControl
    \/ ConfigVoltageOffset
    \/ ConfigCurrentLimit
    \/ CloseDialog
    \/ NoAction
    \/ LoopUpdateDisplay
    \/ Follow
    \/ Cleanup

Spec == Init /\ [][Next]_vars

-----------------------------------------------------------------------------
(* take_screenshot_bb3.py: take_screenshot *)

\* the bytes a response is made of: # 0 1 2 and the newline
Bytes == {Hash, Zero, Zero + 1, Zero + 2, NL}

RECURSIVE SeqsUpTo(_)
SeqsUpTo(n) ==
    IF n = 0 THEN {<<>>}
    ELSE SeqsUpTo(n - 1) \cup {Append(q, b) : q \in {r \in SeqsUpTo(n - 1) : Len(r) = n - 1}, b \in Bytes}

\* the responses the server may deliver
Streams == SeqsUpTo(MaxStream)

Min(a, b) == IF a <= b THEN a ELSE b

\* Python's s[a:b] for 0 <= a, 0 <= b
Slice(s, a, b) == SubSeq(s, a + 1, Min(b, Len(s)))

\* bytes.endswith(b"\n")
EndsWithNL(s) == s # <<>> /\ s[Len(s)] = NL

\* The marker test as it would be if any first byte passed
StartsWithAny(s) == s # <<>>

\* bytes.startswith(b"#")
StartsWithHash(s) == s # <<>> /\ s[1] = Hash

IsDigit(b) == b >= Zero /\ b <= Zero + 9

IsSpace(b) == b = NL

RECURSIVE LStrip(_)
LStrip(s) == IF s # <<>> /\ IsSpace(Head(s)) THEN LStrip(Tail(s)) ELSE s

RECURSIVE RStrip(_)
RStrip(s) == IF s # <<>> /\ IsSpace(s[Len(s)]) THEN RStrip(SubSeq(s, 1, Len(s) - 1)) ELSE s

RECURSIVE Decimal(_)
Decimal(s) ==
    IF s = <<>> THEN 0 ELSE 10 * Decimal(SubSeq(s, 1, Len(s) - 1)) + (s[Len(s)] - Zero)

\* Python's int() of a byte string over Bytes: surrounding whitespace is dropped, the
\* rest must be decimal digits and not empty; None stands for the ValueError
ParseInt(s) ==
    LET body == RStrip(LStrip(s))
    IN  IF body = <<>> \/ \E i \in 1..Len(body) : ~IsDigit(body[i]) THEN None
        ELSE Some(Decimal(body))

\* img_data as it would be with the end of the slice one byte too far
PayloadOneMore(buf, lenOfLen, dataLen) == Slice(buf, 2 + lenOfLen, 2 + lenOfLen + dataLen + 1)

\* line 60
Payload(buf, lenOfLen, dataLen) == Slice(buf, 2 + lenOfLen, 2 + lenOfLen + dataLen)

Failed == [result |-> "False", file |-> None]

\* lines 51-72: the value returned and the file written for the buffer `buf`, when
\* the output file can (fsok) or cannot be written
Decode(buf, fsok) ==
    IF ~StartsWithHash(buf) THEN Failed
    ELSE IF Len(buf) < 2 \/ ~IsDigit(buf[2]) THEN Failed
    ELSE LET lenOfLen == buf[2] - Zero
             dataLen == ParseInt(Slice(buf, 2, 2 + lenOfLen))
         IN  IF dataLen = None THEN Failed
             ELSE IF ~fsok THEN Failed
             ELSE [result |-> "True", file |-> Some(Payload(buf, lenOfLen, dataLen[1]))]

\* take_screenshot is called and the server has a response to deliver
ShotStart ==
    /\ spc = "start"
    /\ sock = "none"
    /\ stream \in Streams
    /\ data = <<>>
    /\ file = None
    /\ writable \in BOOLEAN
    /\ result = "none"

InitShot == FollowerInit /\ ShotStart /\ DmmIdle

\* lines 24-37
Connect ==
    /\ spc = "start"
    /\ \/ /\ sock' = "none"            \* socket.socket raises
          /\ result' = "False"
          /\ spc' = "done"
       \/ /\ sock' = "open"            \* settimeout, connect or sendall raises
          /\ result' = "False"
          /\ spc' = "done"
       \/ /\ sock' = "open"
          /\ result' = result
          /\ spc' = "read"
    /\ data' = <<>>
    /\ UNCHANGED <<stream, file, writable, fvars, dvars>>

\* lines 38-45: one iteration of the read loop
Recv ==
    /\ spc = "read"
    /\ \/ /\ stream # <<>>             \* a chunk of at most RecvSize bytes arrives
          /\ \E n \in 1..Min(Len(stream), RecvSize) :
                /\ data' = data \o SubSeq(stream, 1, n)
                /\ stream' = SubSeq(stream, n + 1, Len(stream))
                /\ spc' = IF EndsWithNL(data \o SubSeq(stream, 1, n)) THEN "decode" ELSE "read"
          /\ UNCHANGED result
       \/ /\ stream = <<>>             \* the peer has closed: recv returns b""
          /\ spc' = "decode"
          /\ UNCHANGED <<data, stream, result>>
       \/ /\ result' = "False"         \* recv raises (the 10 s timeout, a reset)
          /\ spc' = "done"
          /\ UNCHANGED <<data, stream>>
    /\ UNCHANGED <<sock, file, writable, fvars, dvars>>

\* lines 47-68
CloseAndDecode ==
    /\ spc = "decode"
    /\ sock' = "closed"
    /\ result' = Decode(data, writable).result
    /\ file' = Decode(data, writable).file
    /\ spc' = "done"
    /\ UNCHANGED <<stream, data, writable, fvars, dvars>>

NextShot ==
    \/ Connect
    \/ Recv
    \/ CloseAndDecode

SpecShot == InitShot /\ [][NextShot]_vars

-----------------------------------------------------------------------------
(* The DMM6500 browser screenshot tool *)

\* the padding character '=' of base64, next to the 64 symbols 0..63
B64Pad == 64

\* 'data:image/png;base64,' (line 152)
PngHead == "data:image/png;base64,"

Browsers == {"chrome", "firefox", "edge", "safari"}

\* PNG bytes an element or page screenshot can return
Images == {<<137, 80>>, <<137>>}

\* what canvas.toDataURL can return: "TWFu", "TQ==", the truncated "TW", and
\* the "data:," of a canvas without size
DataUrls ==
    { [head |-> PngHead, body |-> <<19, 22, 5, 46>>],
      [head |-> PngHead, body |-> <<19, 16, B64Pad, B64Pad>>],
      [head |-> PngHead, body |-> <<19, 22>>],
      [head |-> "data:,", body |-> <<>>] }

\* base64.b64decode on whole groups of four symbols (line 157)
RECURSIVE B64Bytes(_)
B64Bytes(s) ==
    IF s = <<>> THEN <<>>
    ELSE LET c == IF s[3] = B64Pad THEN 0 ELSE s[3]
             d == IF s[4] = B64Pad THEN 0 ELSE s[4]
             n == s[1] * 262144 + s[2] * 4096 + c * 64 + d
             bytes == <<n \div 65536, (n \div 256) % 256, n % 256>>
             keep == IF s[3] = B64Pad THEN 1 ELSE IF s[4] = B64Pad THEN 2 ELSE 3
         IN  SubSeq(bytes, 1, keep) \o B64Bytes(SubSeq(s, 5, Len(s)))

\* line 157: None stands for binascii.Error (incorrect padding)
B64Decode(s) == IF Len(s) % 4 # 0 THEN None ELSE Some(B64Bytes(s))

\* lines 47-84: "open", "none" (WebDriverException, line 82-84) or
\* "ValueError" (line 80, not caught inside create_driver)
create_driver(b, ok) ==
    IF b \notin {"chrome", "firefox", "edge"} THEN "ValueError"
    ELSE IF ok THEN "open" ELSE "none"

\* lines 124-143: ret is "none" while take_screenshot goes on to line 160
FullPageShot(bumper, wrapper, resized, img) ==
    IF ~bumper /\ ~wrapper
    THEN IF img = None THEN [image |-> None, ret |-> "False"]
         ELSE [image |-> img, ret |-> "True"]        \* lines 135-136
    ELSE IF ~resized \/ img = None THEN [image |-> None, ret |-> "False"]
         ELSE [image |-> img, ret |-> "none"]

\* lines 146-157; url = None stands for execute_script raising
CanvasShot(url) ==
    IF url = None THEN [image |-> None, ret |-> "False"]
    ELSE IF url[1].head # PngHead THEN [image |-> None, ret |-> "False"]
    ELSE IF B64Decode(url[1].body) = None THEN [image |-> None, ret |-> "False"]
    ELSE [image |-> B64Decode(url[1].body), ret |-> "none"]

\* line 230, and the status 1 of an uncaught exception
ExitStatus(ok, quitOk) == IF quitOk /\ ok = "True" THEN 0 ELSE 1

DmmStart ==
    /\ dpc = "create"
    /\ browser \in Browsers
    /\ fullpage \in BOOLEAN
    /\ driver = "none"
    /\ image_data = None
    /\ dfile = None
    /\ dwritable \in BOOLEAN
    /\ success = "none"
    /\ status = -1

InitDmm == FollowerInit /\ ShotIdle /\ DmmStart

\* lines 97-102
CreateDriver ==
    /\ dpc = "create"
    /\ \E ok \in BOOLEAN :
          LET d == create_driver(browser, ok)
          IN  IF d = "open"
              THEN /\ driver' = "open"
                   /\ dpc' = "load"
                   /\ UNCHANGED success
              ELSE /\ success' = "False"
                   /\ dpc' = "finally"
                   /\ UNCHANGED driver
    /\ UNCHANGED <<browser, fullpage, image_data, dfile, dwritable, status, fvars, svars>>

\* lines 105-119
LoadPage ==
    /\ dpc = "load"
    /\ \E r \in {"ok", "TimeoutException", "WebDriverException"} :
          IF r = "ok"
          THEN /\ dpc' = "capture"
               /\ UNCHANGED success
          ELSE /\ success' = "False"
               /\ dpc' = "finally"
    /\ UNCHANGED <<browser, fullpage, driver, image_data, dfile, dwritable, status, fvars, svars>>

\* lines 124-143
CaptureFullPage ==
    /\ dpc = "capture"
    /\ fullpage
    /\ \E bumper \in BOOLEAN, wrapper \in BOOLEAN, resized \in BOOLEAN,
          img \in {None} \cup {Some(i) : i \in Images} :
          LET c == FullPageShot(bumper, wrapper, resized, img)
          IN  /\ image_data' = c.image
              /\ success' = c.ret
              /\ dpc' = IF c.ret = "none" THEN "save" ELSE "finally"
    /\ UNCHANGED <<browser, fullpage, driver, dfile, dwritable, status, fvars, svars>>

\* lines 144-157
CaptureCanvas ==
    /\ dpc = "capture"
    /\ ~fullpage
    /\ \E url \in {None} \cup {Some(u) : u \in DataUrls} :
          LET c == CanvasShot(url)
          IN  /\ image_data' = c.image
              /\ success' = c.ret
              /\ dpc' = IF c.ret = "none" THEN "save" ELSE "finally"
    /\ UNCHANGED <<browser, fullpage, driver, dfile, dwritable, status, fvars, svars>>

\* lines 160-167, 174-178
SaveFile ==
    /\ dpc = "save"
    /\ IF dwritable
       THEN /\ dfile' = image_data
            /\ success' = "True"
       ELSE /\ success' = "False"
            /\ UNCHANGED dfile
    /\ dpc' = "finally"
    /\ UNCHANGED <<browser, fullpage, driver, image_data, dwritable, status, fvars, svars>>

\* lines 180-182 and 230
Exit ==
    /\ dpc = "finally"
    /\ \E quitOk \in IF driver = "open" THEN BOOLEAN ELSE {TRUE} :
          status' = ExitStatus(success, quitOk)
    /\ driver' = IF driver = "open" THEN "quit" ELSE driver
    /\ dpc' = "exited"
    /\ UNCHANGED <<browser, fullpage, image_data, dfile, dwritable, success, fvars, svars>>

NextDmm ==
    \/ CreateDriver
    \/ LoadPage
    \/ CaptureFullPage
    \/ CaptureCanvas
    \/ SaveFile
    \/ Exit

SpecDmm == InitDmm /\ [][NextDmm]_vars

-----------------------------------------------------------------------------
(* Properties of the voltage follower *)

\* The step before this state was a completed Follow (lines 226-249)
Followed == pc = "loop" /\ iter >= 1

\* The close action was observed by the action poll (line 219)
CloseSeen == action = "close_dialog" /\ pc \in {"cleanup", "done"}

\* clamp(x, 0, 40 V), stated by cases
ClampedTo(x, y) ==
    /\ x < 0 => y = 0
    /\ x > FullScale => y = FullScale
    /\ (0 <= x /\ x <= FullScale) => y = x

\* C1: in an iteration with running true the voltage commanded by setU(2, .) is
\* clamp(v + o, 0, 40 V), v the channel-1 reading updateDisplay returned to the loop
\* (the reading getU(1) gave when no call of updateDisplay raised) and o the offset;
\* it lies in [0, 40 V]; nothing is commanded when running is false.
C1_TargetIsClamped ==
    /\ \A i \in 1..Len(sent) :
          sent[i][1] = "setU2" =>
             /\ running
             /\ ClampedTo(ch1_v + voltage_offset, sent[i][2])
             /\ 0 <= sent[i][2] /\ sent[i][2] <= FullScale
             /\ target_voltage_set = sent[i][2]
    /\ (Followed /\ running) => HasName(sent, "setU2")
    /\ (Followed /\ ~running) => sent = <<>>
    /\ (pc = "follow" /\ fault = 0) => (sent[2][1] = "getU" /\ ch1_v = sent[2][3])

\* C1 witness: a reading of 40 V with an offset of 0.5 V commands 40 V
C1_Witness ==
    /\ Followed /\ running
    /\ ch1_v = FullScale /\ voltage_offset = 500
    /\ Has(sent, SetU2(FullScale))

FatalExit ==
    \/ pc \in {"exited", "crashed"}
    \/ pc = "done" /\ ~CloseSeen

\* C3: on every fatal error path the script issues OUTP 0 before its final exit.
C3_FatalExitDisablesOutput == FatalExit => Has(sent, Outp(0))

\* C4: an I/O error (a raising device call) inside a loop iteration ends the loop in
\* that iteration: the step in which a call raised leads to the cleanup, never to a
\* further step of the loop.
C4_IOErrorEndsLoop == (iter >= 1 /\ fault # 0) => pc \in {"cleanup", "done"}

\* The handler of user action `a` is about to run
Handling(a) == pc = "dispatch" /\ action = a

\* C5: running is false when the loop is entered; handling start_control makes it
\* true, handling stop_control makes it false, and no other step changes it.
C5_RunningFollowsStartStop ==
    [][ /\ pc' = "loop" /\ pc = "initupd" => ~running'
        /\ Handling("start_control") => running'
        /\ Handling("stop_control") => ~running'
        /\ ~(Handling("start_control") \/ Handling("stop_control")) => running' = running
      ]_vars

\* C5 witness: a stop was handled while RUNNING
C5_Witness ==
    /\ pc = "update" /\ action = "stop_control"
    /\ ~running /\ target_voltage_set > 0 /\ lastOutp = 0

\* C6: configure-offset leaves voltage_offset as it was when the value entered is
\* outside [-v, 40 V - v], v the channel-1 reading the handler took.
C6_OffsetOutOfRangeRejected ==
    [][ ( /\ Handling("config_voltage_offset")
          /\ fault' = 0
          /\ entered' # None
          /\ \/ entered'[1] < 0 - sent'[1][3]
             \/ entered'[1] > FullScale - sent'[1][3] )
        => voltage_offset' = voltage_offset
      ]_vars

\* C6 witness: 0.5 V entered at a reading of 40 V (range -40 V to 0 V) left the
\* earlier offset of -2 V in place
C6_Witness ==
    /\ pc = "update" /\ action = "config_voltage_offset" /\ fault = 0
    /\ sent[1] = GetU(1, FullScale)
    /\ entered = Some(500)
    /\ voltage_offset = 0 - 2000

\* C7: a cancelled prompt of configure-offset or configure-limit leaves the offset,
\* the limit and running as they were and sends no CURR and no OUTP.
C7_CancelChangesNothing ==
    [][ ( /\ Handling("config_voltage_offset") \/ Handling("config_current_limit")
          /\ fault' = 0
          /\ entered' = None )
        => /\ UNCHANGED <<voltage_offset, current_limit, running, target_voltage_set>>
           /\ ~HasName(sent', "CURR")
           /\ ~HasName(sent', "OUTP")
           /\ pc' = "update"
      ]_vars

\* C7 witness: the current-limit prompt was cancelled
C7_Witness ==
    /\ pc = "update" /\ action = "config_current_limit" /\ fault = 0
    /\ entered = None
    /\ Len(sent) = 1 /\ sent[1][1] = "DISP:INPUT?"

\* The calls in s are, in order, the first calls of cmds
IsPrefix(s, cmds) == Len(s) <= Len(cmds) /\ s = SubSeq(cmds, 1, Len(s))

\* C8: start while RUNNING leaves running true and the other session variables as
\* they were, and only re-issues the status, current-limit and output-enable calls;
\* stop while STOPPED leaves running false and the other session variables as they
\* were, and only re-issues the status and output-disable calls.
C8_StartStopIdempotent ==
    [][ /\ (Handling("start_control") /\ running) =>
              /\ running'
              /\ UNCHANGED <<voltage_offset, current_limit, target_voltage_set, loop_count>>
              /\ IsPrefix(sent', <<Status("RUNNING"), Nsel(2), Curr(current_limit), Outp(1)>>)
        /\ (Handling("stop_control") /\ ~running) =>
              /\ ~running'
              /\ UNCHANGED <<voltage_offset, current_limit, target_voltage_set, loop_count>>
              /\ IsPrefix(sent', <<Status("STOPPED"), Nsel(2), Outp(0)>>)
      ]_vars

\* C8 witness: a second start was handled while RUNNING (the target is set only
\* while running, and only a start sets running)
C8_Witness ==
    /\ pc = "update" /\ action = "start_control" /\ fault = 0
    /\ presses = 2 /\ running /\ target_voltage_set > 0
    /\ Has(sent, Outp(1))

\* The deadline k periods after the loop was entered
Deadline(k) == (t0 + k * Period) % TicksPeriod

\* C9: the wake deadline of the k-th iteration is the time the loop was entered plus
\* k periods of 500 ms, modulo the tick counter, whatever the waits and the handlers
\* took; so the deadlines of consecutive completed iterations differ by one period.
C9_DeadlinesOnePeriodApart ==
    /\ pc \in {"dispatch", "update", "follow"} => t_next = Deadline(iter)
    /\ pc = "loop" => t = Deadline(iter)

\* C9 witness: the last iteration of a run completed, after the tick counter
\* wrapped, with the clock behind the deadline (an early action)
C9_Witness ==
    /\ pc = "loop" /\ iter = MaxIter
    /\ t < t0
    /\ presses > 0
    /\ TicksDiff(t, now) > 0

\* C16: a set-voltage command is issued only in a step where running is true and
\* the last output command was OUTP 1; an iteration that ends with running false
\* (the one that handled stop_control included) issues none.
C16_SetOnlyWhileRunning ==
    /\ HasName(sent, "setU2") => (pc \in {"loop", "cleanup"} /\ running /\ lastOutp = 1)
    /\ (Followed /\ ~running) => ~HasName(sent, "setU2")
    /\ (Followed /\ action = "stop_control") => (~running /\ lastOutp = 0 /\ sent = <<>>)

\* C16 witness: the iteration that handled stop_control, after an earlier iteration
\* had commanded the output, ends without a set-voltage command
C16_Witness ==
    /\ Followed /\ action = "stop_control"
    /\ ~running /\ lastOutp = 0
    /\ target_voltage_set > 0
    /\ sent = <<>>

\* C17: the timeout passed to the action poll in every iteration is at least the
\* 10 ms floor and at most the 500 ms period.
C17_TimeoutWithinPeriod ==
    iter >= 1 => (MinTimeout <= timeout_ms /\ timeout_ms <= Period)

\* C18: at the start of every iteration running is true exactly when the last OUTP
\* command issued was OUTP 1 (none issued counts as disabled); a state in which the
\* two disagree is past the loop.
C18_RunningMatchesOutput ==
    /\ pc = "loop" => (running <=> lastOutp = 1)
    /\ ~(running <=> lastOutp = 1) => pc \in {"cleanup", "done"}

\* C18 witness: an iteration starts stopped, with OUTP 0 the last output command,
\* after the output had been enabled and commanded
C18_Witness ==
    /\ pc = "loop" /\ iter >= 2
    /\ ~running /\ lastOutp = 0
    /\ target_voltage_set > 0

\* C19: the script goes on to the OVP disable only when no call of the module check
\* raised and both model strings contain DCP405; otherwise it ends at once, having
\* issued nothing but the channel selections and the model queries: no OVP command,
\* no dialog, no action poll, no OUTP 1, no set-voltage command, and it takes no
\* further step.
C19_FailedCheckAborts ==
    /\ pc = "ovp" =>
          /\ fault = 0 /\ Len(sent) = 4
          /\ IsDCP405(sent[2][3]) /\ IsDCP405(sent[4][3])
    /\ pc = "exited" =>
          /\ fault # 0 \/ ~IsDCP405(sent[2][3]) \/ ~IsDCP405(sent[4][3])
          /\ \A i \in 1..Len(sent) : sent[i][1] \in {"INST:NSEL", "SYST:CHAN:MODel?"}
          /\ lastOutp = -1 /\ ~running /\ target_voltage_set = 0
          /\ iter = 0 /\ action = "none"
          /\ ~ENABLED Next

\* C19 witness: channel 1 answers DCP405, channel 2 another model, and the script
\* has exited
C19_Witness ==
    /\ pc = "exited" /\ fault = 0
    /\ IsDCP405(sent[2][3]) /\ ~IsDCP405(sent[4][3]) /\ sent[4][3] # <<>>
    /\ lastOutp = -1

\* The display update of the iteration pushed its five telemetry fields
TelemetryPushed ==
    pc = "follow" =>
       Cardinality({i \in 1..Len(sent) : sent[i][1] = "DISP:DIAL:DATA"}) = 5

\* loop_count counts the completed iterations modulo 10, and the status line was
\* printed by the last completed iteration exactly when it was the tenth
StatusLineEveryTen ==
    /\ pc = "loop" => (0 <= loop_count /\ loop_count <= StatusEvery - 1)
    /\ Followed =>
          /\ loop_count = iter % StatusEvery
          /\ printed <=> (iter % StatusEvery = 0)

\* C20: telemetry is pushed in every completed iteration; loop_count is in 0..9 at
\* the start of every iteration and is incremented once per completed iteration, and
\* the status line is printed exactly in the iterations where it reaches 10 and is
\* reset to 0.
C20_TelemetryAndStatusLine == TelemetryPushed /\ StatusLineEveryTen

\* The commands that configure or switch the selected channel, and setU
OutputAffecting == {"CURR", "OUTP", "VOLT:PROT:STAT", "setU2"}

\* The channel selected when the i-th call of s is issued, as far as the calls of
\* s before it tell: 0 when none of them is an INST:NSEL
Selected(s, i) == LastArg(SubSeq(s, 1, i - 1), "INST:NSEL", 0)

\* C21: every CURR, OUTP, VOLT:PROT:STAT and set-voltage command is issued after an
\* INST:NSEL 2 of the same handler, with no other selection in between, so channel 2
\* is the selected instrument when it is issued and still is after the step; and
\* every OUTP 1 is issued by the start handler directly after a CURR that carries
\* the value of current_limit.
C21_OutputCommandsOnChannel2 ==
    \A i \in 1..Len(sent) :
       /\ sent[i][1] \in OutputAffecting =>
             /\ Selected(sent, i) = 2
             /\ lastNsel = 2
       /\ sent[i] = Outp(1) =>
             /\ action = "start_control"
             /\ i >= 2 /\ sent[i - 1] = Curr(current_limit)

\* C21 witness: the start handler, after the limit was set to 1 A, selects channel
\* 2, sends CURR with 1 A and enables the output
C21_Witness ==
    /\ pc = "update" /\ action = "start_control" /\ fault = 0
    /\ current_limit = 1000
    /\ sent = <<Status("RUNNING"), Nsel(2), Curr(1000), Outp(1)>>
    /\ lastNsel = 2 /\ lastOutp = 1

-----------------------------------------------------------------------------
(* Properties of the socket screenshot tool *)

RECURSIVE Pow10(_)
Pow10(n) == IF n = 0 THEN 1 ELSE 10 * Pow10(n - 1)

\* The d ASCII digits that encode len in decimal, zeros in front
DigitsOf(len, d) == [i \in 1..d |-> Zero + ((len \div Pow10(d - i)) % 10)]

\* buf is '#', the digit d, d digits encoding len, and at least len further bytes
IsBlock(buf, d, len) ==
    /\ Len(buf) >= 2 + d + len
    /\ buf[1] = Hash
    /\ buf[2] = Zero + d
    /\ len < Pow10(d)
    /\ SubSeq(buf, 3, 2 + d) = DigitsOf(len, d)

\* take_screenshot has parsed the buffer it received (lines 47-68 ran)
Decoded == spc = "done" /\ sock = "closed"

\* C10: for a buffer '#' + digit d (1-9) + d digits encoding L + at least L further
\* bytes, the bytes written to the output file are exactly the L bytes at positions
\* [2+d, 2+d+L) of the buffer, trailing bytes left out; take_screenshot returns True
\* when the file could be written, and writes no file otherwise.
C10_BlockPayloadWritten ==
    \A d \in 1..9, len \in 0..MaxStream :
       (Decoded /\ IsBlock(data, d, len)) =>
          /\ writable => (result = "True" /\ file = Some(SubSeq(data, 3 + d, 2 + d + len)))
          /\ ~writable => (result = "False" /\ file = None)

\* C10 witness: '#11' + '2' + newline was received; the file holds the byte '2' and
\* not the trailing newline
C10_Witness ==
    /\ Decoded
    /\ data = <<Hash, Zero + 1, Zero + 1, Zero + 2, NL>>
    /\ result = "True"
    /\ file = Some(<<Zero + 2>>)

\* buf starts with '#', the digit d and d digits encoding len, and holds fewer than
\* len bytes after them
IsShortBlock(buf, d, len) ==
    /\ Len(buf) >= 2 + d
    /\ buf[1] = Hash
    /\ buf[2] = Zero + d
    /\ SubSeq(buf, 3, 2 + d) = DigitsOf(len, d)
    /\ Len(buf) < 2 + d + len

\* C11: when the declared length L exceeds the payload bytes in the buffer received,
\* take_screenshot returns False and writes no file.
C11_UnderReadFails ==
    \A d \in 1..9 :
       (Decoded /\ Len(data) >= 2 + d /\ data[2] = Zero + d) =>
          \A len \in 0..(Pow10(d) - 1) :
             IsShortBlock(data, d, len) => (result = "False" /\ file = None)

\* C12: when the buffer received does not start with '#', the empty buffer included,
\* take_screenshot returns False and no output file is created.
C12_NoMarkerFails ==
    (Decoded /\ (data = <<>> \/ data[1] # Hash)) => (result = "False" /\ file = None)

\* C12 witness: a response starting with '1' was received and parsed, the output
\* file being writable
C12_Witness ==
    /\ Decoded /\ writable
    /\ Len(data) >= 3 /\ data[1] = Zero + 1 /\ data[2] = Zero + 1
    /\ result = "False" /\ file = None

\* C13: the read loop never stops before the whole block of the response, 2 + d + L
\* bytes, has been received, however the response is split into chunks.
C13_WholeBlockReceived ==
    \A d \in 1..9, len \in 0..MaxStream :
       (spc = "decode" /\ IsBlock(data \o stream, d, len)) => Len(data) >= 2 + d + len

\* C14: on every return of take_screenshot after the socket was created, the socket
\* has been closed.
C14_SocketClosedOnReturn == (spc = "done" /\ sock # "none") => sock = "closed"

-----------------------------------------------------------------------------
(* Properties of the browser screenshot tool *)

\* C15: once the DMM6500 tool has exited, its exit status is 0 exactly when the
\* captured image is in the output file, and take_screenshot returned True only
\* with the captured image bytes written, in both modes and on every lookup path
C15_TrueOnlyAfterWrite ==
    dpc = "exited" =>
       /\ (status = 0 <=> (image_data # None /\ dfile = image_data))
       /\ (success = "True" => (image_data # None /\ dfile = image_data))

====
